---- MODULE Spec2Model ----
(***************************************************************************)
(* swhids-subgrapher: the union of the forward-reachable sets of a list of *)
(* origins in a read-only graph.                                           *)
(*                                                                         *)
(* The model follows src/tools/swhids-subgrapher/src/main.rs: main() is    *)
(* the driver (open the origins file, load the graph, run                  *)
(* process_origins_and_build_subgraph, write the result file and, when     *)
(* some origin was unknown, the error file) and                            *)
(* process_origins_and_build_subgraph is the per-line resolver followed by *)
(* an iterative BFS that is pruned at the nodes already in the result.     *)
(*                                                                         *)
(* A string is a sequence of segments; the segments "git://" and           *)
(* "https://" are the two patterns the program searches for, every other   *)
(* segment is text that contains neither.                                  *)
(***************************************************************************)
EXTENDS Integers, Sequences, FiniteSets, TLC

VARIABLES
    successors,                \* the loaded graph: node -> sequence of successors
    swhids,                    \* the loaded graph: node -> SWHID
    origins,                   \* the lines of the origins file, each Ok(url) or Err
    allow_protocol_variations, \* the -p flag
    pc,                        \* the control point of main
    idx,                       \* how many lines the for loop has consumed
    subgraph_nodes,            \* HashSet<usize> of process_origins_and_build_subgraph
    unknown_origins,           \* Vec<String> of process_origins_and_build_subgraph
    visited,                   \* the AdaptiveNodeSet of the visit in progress
    queue,                     \* the VecDeque of the visit in progress
    visited_nodes,             \* the counter of the visit in progress
    result_file,               \* the output file
    errors_file,               \* origin_errors.txt
    exit_code,                 \* the status the process ends with (-1: running)
    seeds,                     \* history: the nodes the visits so far started from
    lookups,                   \* history: the urls looked up for the last line read
    pushed,                    \* history: the nodes pushed during the visit in progress
    popped,                    \* history: the nodes popped during the visit in progress
    expanded,                  \* history: the nodes whose successors were enumerated
    visit_log,                 \* history: visited_nodes of each completed visit
    io_log                     \* history: the files main tried to write, in order

vars == <<successors, swhids, origins, allow_protocol_variations, pc, idx,
          subgraph_nodes, unknown_origins, visited, queue, visited_nodes,
          result_file, errors_file, exit_code, seeds, lookups, pushed, popped,
          expanded, visit_log, io_log>>

graph_vars == <<successors, swhids>>
input_vars == <<origins, allow_protocol_variations>>
visit_vars == <<visited, queue, visited_nodes, pushed, popped>>
file_vars  == <<result_file, errors_file, io_log>>
count_vars == <<expanded, visit_log>>

-----------------------------------------------------------------------------
(* Bounds of the explored inputs.                                          *)

NumNodes == 3          \* nodes of the enumerated graphs
MaxArcs == 2           \* arcs of the enumerated graphs
MaxOrigins == 2        \* lines of the origins file over the enumerated graphs
MaxUrlLen == 2         \* segments of the enumerated urls
MaxTestOrigins == 3    \* lines of the origins file over the two fixed graphs

-----------------------------------------------------------------------------
(* Strings.                                                                *)

GIT == "git://"
HTTPS == "https://"

\* str::contains(pat)
Contains(s, pat) == \E i \in 1..Len(s) : s[i] = pat

\* str::replace(from, to): every match is replaced
Replace(s, from, to) == [i \in 1..Len(s) |-> IF s[i] = from THEN to ELSE s[i]]

-----------------------------------------------------------------------------
(* The graph collaborator.                                                 *)

\* the digest of the url's bytes: distinct urls have distinct digests
Sha1(origin) == <<"sha1">> \o origin

\* SWHID::from_origin_url
from_origin_url(origin) ==
    [namespace_version |-> 1, node_type |-> "ori", hash |-> Sha1(origin)]

\* swhid!(swh:1:<node_type>:<hex>)
swhid(node_type, hex) ==
    [namespace_version |-> 1, node_type |-> node_type, hash |-> <<"hex", hex>>]

Ok(v) == [is_ok |-> TRUE, v |-> v]
Err == [is_ok |-> FALSE, v |-> <<>>]

num_nodes(g_swhids) == Cardinality(DOMAIN g_swhids)

\* graph.properties().node_id(swhid): the node that carries the SWHID, or Err
node_id(g_swhids, id) ==
    IF \E n \in DOMAIN g_swhids : g_swhids[n] = id
    THEN Ok(CHOOSE n \in DOMAIN g_swhids : g_swhids[n] = id)
    ELSE Err

-----------------------------------------------------------------------------
(* The origin resolver: main.rs lines 136-162.                             *)

\* a variant that tests for "https://" first
alternative_origin_https_first(origin) ==
    IF Contains(origin, HTTPS) THEN Replace(origin, HTTPS, GIT)
    ELSE IF Contains(origin, GIT) THEN Replace(origin, GIT, HTTPS)
    ELSE origin

\* the url tried when the direct lookup failed
alternative_origin(origin) ==
    IF Contains(origin, GIT) THEN Replace(origin, GIT, HTTPS)
    ELSE IF Contains(origin, HTTPS) THEN Replace(origin, HTTPS, GIT)
    ELSE origin

\* a variant that tries the other protocol whatever the flag says
resolve_ignoring_flag(g_swhids, origin, allow) ==
    LET first == node_id(g_swhids, from_origin_url(origin))
    IN  IF ~first.is_ok /\ (Contains(origin, GIT) \/ Contains(origin, HTTPS))
        THEN LET alt == alternative_origin(origin)
             IN  [node_id_lookup |-> node_id(g_swhids, from_origin_url(alt)),
                  looked |-> <<origin, alt>>]
        ELSE [node_id_lookup |-> first, looked |-> <<origin>>]

\* a variant that tries the other protocol first when the flag is on
resolve_alternative_first(g_swhids, origin, allow) ==
    LET alt == alternative_origin(origin)
        second == node_id(g_swhids, from_origin_url(alt))
    IN  IF allow /\ (Contains(origin, GIT) \/ Contains(origin, HTTPS))
             /\ second.is_ok
        THEN [node_id_lookup |-> second, looked |-> <<alt>>]
        ELSE [node_id_lookup |-> node_id(g_swhids, from_origin_url(origin)),
              looked |-> <<alt, origin>>]

\* node_id_lookup after the optional second lookup, and the urls looked up
resolve(g_swhids, origin, allow) ==
    LET first == node_id(g_swhids, from_origin_url(origin))
    IN  IF ~first.is_ok /\ allow
             /\ (Contains(origin, GIT) \/ Contains(origin, HTTPS))
        THEN LET alt == alternative_origin(origin)
             IN  [node_id_lookup |-> node_id(g_swhids, from_origin_url(alt)),
                  looked |-> <<origin, alt>>]
        ELSE [node_id_lookup |-> first, looked |-> <<origin>>]

-----------------------------------------------------------------------------
(* The traversal engine: main.rs lines 174-207.                            *)

\* a variant that stops one successor short
RECURSIVE expand_skips_last(_, _, _, _)
expand_skips_last(succs, i, vis, q) ==
    IF i >= Len(succs) THEN [visited |-> vis, queue |-> q]
    ELSE IF succs[i] \in vis THEN expand_skips_last(succs, i + 1, vis, q)
    ELSE expand_skips_last(succs, i + 1, vis \cup {succs[i]}, Append(q, succs[i]))

\* a variant that pushes every successor, marked or not
RECURSIVE expand_unchecked(_, _, _, _)
expand_unchecked(succs, i, vis, q) ==
    IF i > Len(succs) THEN [visited |-> vis, queue |-> q]
    ELSE expand_unchecked(succs, i + 1, vis \cup {succs[i]}, Append(q, succs[i]))

\* a variant that pushes at the front of the queue
RECURSIVE expand_push_front(_, _, _, _)
expand_push_front(succs, i, vis, q) ==
    IF i > Len(succs) THEN [visited |-> vis, queue |-> q]
    ELSE IF succs[i] \in vis THEN expand_push_front(succs, i + 1, vis, q)
    ELSE expand_push_front(succs, i + 1, vis \cup {succs[i]}, <<succs[i]>> \o q)

\* for succ in graph.successors(current_node) { if !visited.contains(succ) .. }
RECURSIVE expand(_, _, _, _)
expand(succs, i, vis, q) ==
    IF i > Len(succs) THEN [visited |-> vis, queue |-> q]
    ELSE IF succs[i] \in vis THEN expand(succs, i + 1, vis, q)
    ELSE expand(succs, i + 1, vis \cup {succs[i]}, Append(q, succs[i]))

\* a variant that leaves the loop at the first node found in the result
visit_node_stop_at_known(g_succ, st) ==
    LET current_node == Head(st.queue)
        new == current_node \notin st.subgraph_nodes
    IN  IF new
        THEN LET e == expand(g_succ[current_node], 1, st.visited, Tail(st.queue))
             IN  [subgraph_nodes |-> st.subgraph_nodes \cup {current_node},
                  visited |-> e.visited,
                  queue |-> e.queue,
                  visited_nodes |-> st.visited_nodes + 1]
        ELSE [st EXCEPT !.queue = <<>>]

\* a variant that visits the children of every popped node
visit_node_no_pruning(g_succ, st) ==
    LET current_node == Head(st.queue)
        e == expand(g_succ[current_node], 1, st.visited, Tail(st.queue))
    IN  [subgraph_nodes |-> st.subgraph_nodes \cup {current_node},
         visited |-> e.visited,
         queue |-> e.queue,
         visited_nodes |-> st.visited_nodes + 1]

\* a variant that looks at the front of the queue and leaves it there
visit_node_peeks(g_succ, st) ==
    LET current_node == Head(st.queue)
        new == current_node \notin st.subgraph_nodes
    IN  IF new
        THEN LET e == expand(g_succ[current_node], 1, st.visited, Tail(st.queue))
             IN  [subgraph_nodes |-> st.subgraph_nodes \cup {current_node},
                  visited |-> e.visited,
                  queue |-> e.queue,
                  visited_nodes |-> st.visited_nodes + 1]
        ELSE st

\* one iteration of `while let Some(current_node) = queue.pop_front()`
visit_node(g_succ, st) ==
    LET current_node == Head(st.queue)
        new == current_node \notin st.subgraph_nodes
    IN  IF new
        THEN LET e == expand(g_succ[current_node], 1, st.visited, Tail(st.queue))
             IN  [subgraph_nodes |-> st.subgraph_nodes \cup {current_node},
                  visited |-> e.visited,
                  queue |-> e.queue,
                  visited_nodes |-> st.visited_nodes + 1]
        ELSE [st EXCEPT !.queue = Tail(st.queue)]

\* the state a visit starts in: a fresh visited set, the seed alone in the queue
start_visit(nodes, seed) ==
    [subgraph_nodes |-> nodes, visited |-> {}, queue |-> <<seed>>,
     visited_nodes |-> 0]

\* the whole while loop
RECURSIVE bfs(_, _)
bfs(g_succ, st) ==
    IF st.queue = <<>> THEN st ELSE bfs(g_succ, visit_node(g_succ, st))

\* the body of `for origin_result in origins`
process_line(g_succ, g_swhids, allow, acc, origin_result) ==
    IF ~origin_result.is_ok THEN acc
    ELSE LET origin == origin_result.v
             r == resolve(g_swhids, origin, allow).node_id_lookup
         IN  IF ~r.is_ok
             THEN [acc EXCEPT !.unknown_origins = Append(@, origin)]
             ELSE [acc EXCEPT !.subgraph_nodes =
                       bfs(g_succ, start_visit(@, r.v)).subgraph_nodes]

\* process_origins_and_build_subgraph as a function of its arguments
RECURSIVE process_origins_from(_, _, _, _, _, _)
process_origins_from(g_succ, g_swhids, origs, allow, i, acc) ==
    IF i > Len(origs) THEN acc
    ELSE process_origins_from(g_succ, g_swhids, origs, allow, i + 1,
             process_line(g_succ, g_swhids, allow, acc, origs[i]))

process_origins_and_build_subgraph(g_succ, g_swhids, origs, allow) ==
    process_origins_from(g_succ, g_swhids, origs, allow, 1,
        [subgraph_nodes |-> {}, unknown_origins |-> <<>>])

-----------------------------------------------------------------------------
(* The files: main.rs lines 220-238.                                       *)

NoFile == [exists |-> FALSE, items |-> <<>>]

\* write_items_to_file: Ok with the items in the file, or an io::Error (from
\* File::create or from a writeln!) that leaves no usable file
write_items_to_file(items, io_ok) ==
    IF io_ok THEN [res |-> TRUE, file |-> [exists |-> TRUE, items |-> items]]
    ELSE [res |-> FALSE, file |-> NoFile]

-----------------------------------------------------------------------------
(* The inputs: a loaded graph, an origins file and the -p flag.            *)

\* all sequences over S of length Lo..Hi
SeqsOf(S, Lo, Hi) == UNION {[1..n -> S] : n \in Lo..Hi}

\* GraphBuilder: the successors of n are the targets of its arcs, in order
graph_of(nodes, arcs) ==
    [n \in nodes |->
        LET from_n == SelectSeq(arcs, LAMBDA a : a[1] = n)
        IN  [i \in 1..Len(from_n) |-> from_n[i][2]]]

(* The graph of tests::test_process_origins_and_build_subgraph.            *)
TestSwhids ==
    [n \in 0..8 |->
        CASE n = 0 -> from_origin_url(<<HTTPS, "example.com/repo1">>)
          [] n = 1 -> from_origin_url(<<HTTPS, "example.com/repo2">>)
          [] n = 2 -> swhid("snp", "02")
          [] n = 3 -> swhid("snp", "03")
          [] n = 4 -> swhid("rev", "04")
          [] n = 5 -> swhid("rev", "05")
          [] n = 6 -> swhid("rev", "06")
          [] n = 7 -> from_origin_url(<<HTTPS, "example.com/discinnected">>)
          [] n = 8 -> swhid("rev", "08")]

TestArcs ==
    << <<0, 2>>, <<0, 2>>, <<0, 3>>, <<1, 2>>, <<2, 4>>, <<2, 5>>, <<3, 5>>,
       <<3, 5>>, <<5, 6>>, <<7, 8>> >>

TestSuccessors == graph_of(0..8, TestArcs)

\* the three lines of the test, and the lines of its other runs
TestOrigins ==
    << Ok(<<HTTPS, "example.com/repo1">>),
       Ok(<<GIT, "example.com/repo2">>),
       Ok(<<HTTPS, "unknown.com/repo">>) >>

TestLines ==
    { TestOrigins[i] : i \in 1..Len(TestOrigins) }
        \cup { Ok(<<HTTPS, "example.com/discinnected">>), Err }

\* the test's graph with every file of at most MaxTestOrigins of its lines
InitTest ==
    /\ successors = TestSuccessors
    /\ swhids = TestSwhids
    /\ origins \in SeqsOf(TestLines, 0, MaxTestOrigins)
    /\ allow_protocol_variations \in BOOLEAN

(* A layered graph with a shortcut: three origins, the snapshot 3 under    *)
(* the origins 0 and 1, the chain 4 -> 5 -> 6 -> 7 under the origins 0 and *)
(* 2, and the arc 3 -> 7 that reaches the end of the chain in two steps.   *)
ShortcutSwhids ==
    [n \in 0..7 |->
        CASE n = 0 -> from_origin_url(<<HTTPS, "example.com/s0">>)
          [] n = 1 -> from_origin_url(<<HTTPS, "example.com/s1">>)
          [] n = 2 -> from_origin_url(<<HTTPS, "example.com/s2">>)
          [] n = 3 -> swhid("snp", "03")
          [] n = 4 -> swhid("snp", "04")
          [] n = 5 -> swhid("rev", "05")
          [] n = 6 -> swhid("rev", "06")
          [] n = 7 -> swhid("rev", "07")]

ShortcutArcs ==
    << <<0, 3>>, <<0, 4>>, <<1, 3>>, <<2, 4>>, <<3, 7>>, <<4, 5>>, <<5, 6>>,
       <<6, 7>> >>

ShortcutLines ==
    { Ok(<<HTTPS, "example.com/s0">>), Ok(<<HTTPS, "example.com/s1">>),
      Ok(<<HTTPS, "example.com/s2">>) }

InitShortcut ==
    /\ successors = graph_of(0..7, ShortcutArcs)
    /\ swhids = ShortcutSwhids
    /\ origins \in SeqsOf(ShortcutLines, 0, MaxTestOrigins)
    /\ allow_protocol_variations = FALSE

(* Every graph of NumNodes origin nodes and at most MaxArcs arcs, with the *)
(* flag on: the git:// line is found through the fallback.                 *)
Nodes == 0..(NumNodes - 1)

HostNames == <<"h0", "h1", "h2", "h3", "h4", "h5">>

NodeUrl(n) == <<HTTPS, HostNames[n + 1]>>

GraphLines == { Ok(NodeUrl(n)) : n \in Nodes } \cup { Ok(<<GIT, HostNames[1]>>) }

InitGraphs ==
    /\ \E arcs \in SeqsOf(Nodes \X Nodes, 0, MaxArcs) :
           successors = graph_of(Nodes, arcs)
    /\ swhids = [n \in Nodes |-> from_origin_url(NodeUrl(n))]
    /\ origins \in SeqsOf(GraphLines, 0, MaxOrigins)
    /\ allow_protocol_variations = TRUE

(* Every url of at most MaxUrlLen segments, as the origin of node 0 and as *)
(* the one line of the file; node 1 is a snapshot or the origin of the     *)
(* other protocol.  The graph has no arc, the arc 0 -> 1, or a loop at 0   *)
(* beside a doubled arc 0 -> 1.                                            *)
Segments == {GIT, HTTPS, "x"}

Urls == SeqsOf(Segments, 1, MaxUrlLen)

InitUrls ==
    /\ successors \in {graph_of(0..1, <<>>), graph_of(0..1, << <<0, 1>> >>),
                       graph_of(0..1, << <<0, 0>>, <<0, 1>>, <<0, 1>> >>)}
    /\ \E u \in Urls :
          \E other \in {swhid("snp", "02"),
                        from_origin_url(Replace(u, GIT, HTTPS)),
                        from_origin_url(Replace(u, HTTPS, GIT))} :
              /\ other # from_origin_url(u)
              /\ swhids = [n \in 0..1 |-> IF n = 0 THEN from_origin_url(u) ELSE other]
    /\ \E line \in {Ok(u) : u \in Urls} \cup {Err} : origins = <<line>>
    /\ allow_protocol_variations \in BOOLEAN

Init ==
    /\ (InitTest \/ InitShortcut \/ InitGraphs \/ InitUrls)
    /\ pc = "open_origins"
    /\ idx = 0
    /\ subgraph_nodes = {}
    /\ unknown_origins = <<>>
    /\ visited = {}
    /\ queue = <<>>
    /\ visited_nodes = 0
    /\ result_file = NoFile
    /\ errors_file = NoFile
    /\ exit_code = -1
    /\ seeds = <<>>
    /\ lookups = <<>>
    /\ pushed = <<>>
    /\ popped = <<>>
    /\ expanded = <<>>
    /\ visit_log = <<>>
    /\ io_log = <<>>

-----------------------------------------------------------------------------
(* main: lines 46-103, and the loop of process_origins_and_build_subgraph. *)

Exit(code) == pc' = "exit" /\ exit_code' = code

\* lines_from_file(args.origins).expect(..): a failed open panics
OpenOrigins ==
    /\ pc = "open_origins"
    /\ \E opened \in BOOLEAN :
          IF opened THEN pc' = "load_graph" /\ exit_code' = exit_code
          ELSE Exit(101)
    /\ UNCHANGED <<graph_vars, input_vars, count_vars, idx, subgraph_nodes, unknown_origins,
                   visit_vars, file_vars, seeds, lookups>>

\* SwhUnidirectionalGraph::new(..)?.load_properties(..)?: an Err leaves main
LoadGraph ==
    /\ pc = "load_graph"
    /\ \E loaded \in BOOLEAN :
          IF loaded THEN pc' = "next_origin" /\ exit_code' = exit_code
          ELSE Exit(1)
    /\ UNCHANGED <<graph_vars, input_vars, count_vars, idx, subgraph_nodes, unknown_origins,
                   visit_vars, file_vars, seeds, lookups>>

\* the line the for loop is about to read
HasNext == idx < Len(origins)
NextLine == origins[idx + 1]
Resolved == resolve(swhids, NextLine.v, allow_protocol_variations)

\* a variant that carries on with the empty string of a line it could not read
SkipLineAsEmptyUrl ==
    /\ pc = "next_origin"
    /\ HasNext
    /\ ~NextLine.is_ok
    /\ idx' = idx + 1
    /\ lookups' = <<NextLine.v>>
    /\ unknown_origins' = Append(unknown_origins, NextLine.v)
    /\ UNCHANGED <<graph_vars, input_vars, count_vars, pc, subgraph_nodes,
                   visit_vars, file_vars, exit_code, seeds>>

\* origin_result.is_err(): log and continue
SkipLine ==
    /\ pc = "next_origin"
    /\ HasNext
    /\ ~NextLine.is_ok
    /\ idx' = idx + 1
    /\ lookups' = <<>>
    /\ UNCHANGED <<graph_vars, input_vars, count_vars, pc, subgraph_nodes, unknown_origins,
                   visit_vars, file_vars, exit_code, seeds>>

\* a variant that reports the last url it looked up
ReportUnknownLastLookup ==
    /\ pc = "next_origin"
    /\ HasNext
    /\ NextLine.is_ok
    /\ ~Resolved.node_id_lookup.is_ok
    /\ idx' = idx + 1
    /\ lookups' = Resolved.looked
    /\ unknown_origins' =
           Append(unknown_origins, Resolved.looked[Len(Resolved.looked)])
    /\ UNCHANGED <<graph_vars, input_vars, count_vars, pc, subgraph_nodes, visit_vars,
                   file_vars, exit_code, seeds>>

\* let Ok(node_id) = node_id_lookup else { unknown_origins.push(origin); continue }
ReportUnknown ==
    /\ pc = "next_origin"
    /\ HasNext
    /\ NextLine.is_ok
    /\ ~Resolved.node_id_lookup.is_ok
    /\ idx' = idx + 1
    /\ lookups' = Resolved.looked
    /\ unknown_origins' = Append(unknown_origins, NextLine.v)
    /\ UNCHANGED <<graph_vars, input_vars, count_vars, pc, subgraph_nodes, visit_vars,
                   file_vars, exit_code, seeds>>

\* a variant that reports the url whose direct lookup failed before it
\* tries the other protocol
StartVisitReportsMiss ==
    /\ pc = "next_origin"
    /\ HasNext
    /\ NextLine.is_ok
    /\ Resolved.node_id_lookup.is_ok
    /\ LET st == start_visit(subgraph_nodes, Resolved.node_id_lookup.v)
       IN  /\ visited' = st.visited
           /\ queue' = st.queue
           /\ visited_nodes' = st.visited_nodes
           /\ pushed' = st.queue
    /\ popped' = <<>>
    /\ idx' = idx + 1
    /\ lookups' = Resolved.looked
    /\ seeds' = Append(seeds, Resolved.node_id_lookup.v)
    /\ unknown_origins' = IF Len(Resolved.looked) > 1
                          THEN Append(unknown_origins, NextLine.v)
                          ELSE unknown_origins
    /\ pc' = "bfs"
    /\ UNCHANGED <<graph_vars, input_vars, count_vars, subgraph_nodes,
                   file_vars, exit_code>>

\* the lookup succeeded: a fresh visited set and the seed alone in the queue
StartVisit ==
    /\ pc = "next_origin"
    /\ HasNext
    /\ NextLine.is_ok
    /\ Resolved.node_id_lookup.is_ok
    /\ LET st == start_visit(subgraph_nodes, Resolved.node_id_lookup.v)
       IN  /\ visited' = st.visited
           /\ queue' = st.queue
           /\ visited_nodes' = st.visited_nodes
           /\ pushed' = st.queue
    /\ popped' = <<>>
    /\ idx' = idx + 1
    /\ lookups' = Resolved.looked
    /\ seeds' = Append(seeds, Resolved.node_id_lookup.v)
    /\ pc' = "bfs"
    /\ UNCHANGED <<graph_vars, input_vars, count_vars, subgraph_nodes, unknown_origins,
                   file_vars, exit_code>>

\* one iteration of the while loop
VisitNode ==
    /\ pc = "bfs"
    /\ queue # <<>>
    /\ LET st == visit_node(successors,
                     [subgraph_nodes |-> subgraph_nodes, visited |-> visited,
                      queue |-> queue, visited_nodes |-> visited_nodes])
       IN  /\ subgraph_nodes' = st.subgraph_nodes
           /\ visited' = st.visited
           /\ queue' = st.queue
           /\ visited_nodes' = st.visited_nodes
           /\ pushed' = pushed \o SubSeq(st.queue, Len(queue), Len(st.queue))
           /\ expanded' = IF st.visited_nodes = visited_nodes THEN expanded
                          ELSE Append(expanded, Head(queue))
    /\ popped' = Append(popped, Head(queue))
    /\ UNCHANGED <<graph_vars, input_vars, visit_log, pc, idx, unknown_origins, file_vars,
                   exit_code, seeds, lookups>>

\* queue.pop_front() is None: the visit is over, on to the next line
FinishVisit ==
    /\ pc = "bfs"
    /\ queue = <<>>
    /\ pc' = "next_origin"
    /\ visit_log' = Append(visit_log, visited_nodes)
    /\ UNCHANGED <<graph_vars, input_vars, expanded, idx, subgraph_nodes, unknown_origins,
                   visit_vars, file_vars, exit_code, seeds, lookups>>

\* the iterator is exhausted: (subgraph_nodes, unknown_origins) is returned
Return ==
    /\ pc = "next_origin"
    /\ ~HasNext
    /\ pc' = "write_result"
    /\ UNCHANGED <<graph_vars, input_vars, count_vars, idx, subgraph_nodes, unknown_origins,
                   visit_vars, file_vars, exit_code, seeds, lookups>>

\* a variant that goes on to the error file whatever unknown_origins holds
WriteResultThenErrors ==
    /\ pc = "write_result"
    /\ \E io_ok \in BOOLEAN :
          result_file' =
              write_items_to_file({swhids[n] : n \in subgraph_nodes}, io_ok).file
    /\ io_log' = Append(io_log, "result")
    /\ pc' = "write_errors"
    /\ exit_code' = exit_code
    /\ UNCHANGED <<graph_vars, input_vars, count_vars, idx, subgraph_nodes, unknown_origins,
                   visit_vars, errors_file, seeds, lookups>>

\* match write_items_to_file(swhids of subgraph_nodes, output): an Err is logged;
\* then `if !unknown_origins.is_empty()`, else Ok(())
WriteResult ==
    /\ pc = "write_result"
    /\ \E io_ok \in BOOLEAN :
          result_file' =
              write_items_to_file({swhids[n] : n \in subgraph_nodes}, io_ok).file
    /\ io_log' = Append(io_log, "result")
    /\ IF unknown_origins # <<>>
       THEN pc' = "write_errors" /\ exit_code' = exit_code
       ELSE Exit(0)
    /\ UNCHANGED <<graph_vars, input_vars, count_vars, idx, subgraph_nodes, unknown_origins,
                   visit_vars, errors_file, seeds, lookups>>

\* write_items_to_file(&unknown_origins, errors_filename)?; Ok(())
WriteErrors ==
    /\ pc = "write_errors"
    /\ \E io_ok \in BOOLEAN :
          LET w == write_items_to_file(unknown_origins, io_ok)
          IN  /\ errors_file' = w.file
              /\ IF w.res THEN Exit(0) ELSE Exit(1)
    /\ io_log' = Append(io_log, "errors")
    /\ UNCHANGED <<graph_vars, input_vars, count_vars, idx, subgraph_nodes, unknown_origins,
                   visit_vars, result_file, seeds, lookups>>

Next ==
    \/ OpenOrigins
    \/ LoadGraph
    \/ SkipLine
    \/ ReportUnknown
    \/ StartVisit
    \/ VisitNode
    \/ FinishVisit
    \/ Return
    \/ WriteResult
    \/ WriteErrors

Spec == Init /\ [][Next]_vars

\* main is one sequential thread: a step that can be taken is taken
FairSpec == Init /\ [][Next]_vars /\ WF_vars(Next)

-----------------------------------------------------------------------------
(* Vocabulary of the properties, stated on the graph and the file alone.   *)

Range(s) == {s[i] : i \in 1..Len(s)}

\* the nodes reachable from the set S in zero or more arcs
RECURSIVE Closure(_)
Closure(S) ==
    LET T == S \cup UNION {Range(successors[n]) : n \in S}
    IN  IF T = S THEN S ELSE Closure(T)

Reach(s) == Closure({s})

\* u is the url of an origin node of the graph
InGraph(u) == \E n \in DOMAIN swhids : swhids[n] = from_origin_url(u)
NodeOf(u) == CHOOSE n \in DOMAIN swhids : swhids[n] = from_origin_url(u)

HasProtocol(u) == Contains(u, GIT) \/ Contains(u, HTTPS)

\* the protocol-swapped form: git:// becomes https:// if u contains git://,
\* otherwise https:// becomes git://
Swapped(u) ==
    IF Contains(u, GIT) THEN Replace(u, GIT, HTTPS) ELSE Replace(u, HTTPS, GIT)

\* the direct lookup of u fails and the fallback applies and succeeds
FallbackCase(u) ==
    /\ allow_protocol_variations
    /\ ~InGraph(u)
    /\ HasProtocol(u)
    /\ InGraph(Swapped(u))

\* the node u resolves to, directly or via the fallback: {} when it is unknown
ResolvesTo(u) ==
    IF InGraph(u) THEN {NodeOf(u)}
    ELSE IF FallbackCase(u) THEN {NodeOf(Swapped(u))}
    ELSE {}

\* the nodes the lines 1..k of the file resolve to
ResolvedUpTo(k) ==
    UNION {ResolvesTo(origins[i].v) : i \in {j \in 1..k : origins[j].is_ok}}

\* process_origins_and_build_subgraph has returned
Returned == pc \in {"write_result", "write_errors"} \/ (pc = "exit" /\ io_log # <<>>)

\* the moment it returns
AtReturn == pc = "write_result"

\* the function on another origin list over the same graph and flag
RunOn(origs) ==
    process_origins_and_build_subgraph(successors, swhids, origs,
                                       allow_protocol_variations)

\* the stepwise run and the function agree on what is returned
RunMatchesFunction ==
    AtReturn =>
        /\ RunOn(origins).subgraph_nodes = subgraph_nodes
        /\ RunOn(origins).unknown_origins = unknown_origins

-----------------------------------------------------------------------------
(* C1. Reachability completeness: once the whole origin list is processed, *)
(* for every line that resolved to a node s, directly or via the protocol  *)
(* fallback, s and every node forward-reachable from s is in the returned  *)
(* ResultSet; cycles, self-loops and duplicate arcs included.              *)
ReachabilityCompleteness ==
    Returned =>
        \A i \in 1..Len(origins) :
            origins[i].is_ok =>
                \A s \in ResolvesTo(origins[i].v) : Reach(s) \subseteq subgraph_nodes

\* a run over a seed found via the fallback, on a cycle back to the seed,
\* after another origin was processed
ReachabilityCompletenessWitness ==
    /\ Returned
    /\ Len(origins) >= 2
    /\ \E i \in 2..Len(origins) :
          /\ origins[i].is_ok
          /\ FallbackCase(origins[i].v)
          /\ \E s \in ResolvesTo(origins[i].v) :
                /\ Cardinality(Reach(s)) >= 2
                /\ s \in Closure(Range(successors[s]))
                /\ Reach(s) \subseteq subgraph_nodes

-----------------------------------------------------------------------------
(* C2. Reachability soundness: in every state of a run, every node of the  *)
(* ResultSet is forward-reachable from the node of an origin resolved so   *)
(* far; a list in which no origin resolves (the empty list too) returns an *)
(* empty ResultSet, and the origin of the disconnected component of the    *)
(* test's graph returns that component, {7, 8}.                            *)
ReachabilitySoundness ==
    /\ Range(seeds) \subseteq ResolvedUpTo(idx)
    /\ subgraph_nodes \subseteq Closure(Range(seeds))
    /\ (Returned /\ ResolvedUpTo(Len(origins)) = {}) => subgraph_nodes = {}
    /\ ( /\ Returned
         /\ successors = TestSuccessors
         /\ swhids = TestSwhids
         /\ origins = <<Ok(<<HTTPS, "example.com/discinnected">>)>> )
           => subgraph_nodes = {7, 8}

\* a visit under way below a second seed: part of what it reaches is in
\* the ResultSet, and the graph holds nodes that no seed reaches
ReachabilitySoundnessWitness ==
    /\ pc = "bfs"
    /\ Len(seeds) = 2
    /\ queue # <<>>
    /\ subgraph_nodes # {}
    /\ subgraph_nodes # Closure(Range(seeds))
    /\ Closure(Range(seeds)) # DOMAIN successors

-----------------------------------------------------------------------------
(* C3. Union independence of order: on any permutation of the same origin  *)
(* list, with the same graph and flag, the function returns the same       *)
(* ResultSet, although the later visits are pruned at nodes the earlier    *)
(* ones added.                                                             *)
Permuted(origs) ==
    {[i \in 1..Len(origs) |-> origs[f[i]]] : f \in Permutations(1..Len(origs))}

OrderIndependence ==
    AtReturn =>
        \A p \in Permuted(origins) : RunOn(p).subgraph_nodes = subgraph_nodes

\* two seeds whose reachable sets overlap without one holding the other's seed:
\* whichever comes second is pruned
OrderIndependenceWitness ==
    /\ AtReturn
    /\ Len(seeds) >= 2
    /\ seeds[1] # seeds[2]
    /\ Reach(seeds[1]) \cap Reach(seeds[2]) # {}
    /\ seeds[2] \notin Reach(seeds[1])
    /\ seeds[1] \notin Reach(seeds[2])

-----------------------------------------------------------------------------
(* C4. Idempotent re-processing: a list in which an origin occurs twice    *)
(* returns the same ResultSet as the list without the second occurrence;   *)
(* the second visit pops its seed, finds it in the ResultSet and adds      *)
(* nothing.                                                                *)
Without(origs, j) ==
    [i \in 1..(Len(origs) - 1) |-> IF i < j THEN origs[i] ELSE origs[i + 1]]

\* line j is a successfully read line that occurred before
Repeats(j) == origins[j].is_ok /\ \E i \in 1..(j - 1) : origins[i] = origins[j]

IdempotentReprocessing ==
    /\ AtReturn =>
          \A j \in 1..Len(origins) :
              Repeats(j) => RunOn(Without(origins, j)).subgraph_nodes = subgraph_nodes
    /\ (pc = "bfs" /\ Repeats(idx)) =>
          /\ pushed = <<seeds[Len(seeds)]>>
          /\ seeds[Len(seeds)] \in subgraph_nodes
          /\ (queue = <<>> => popped = pushed /\ visited_nodes = 0)

\* the second visit of an origin is over, another origin having been
\* visited in between
IdempotentReprocessingWitness ==
    /\ pc = "bfs"
    /\ queue = <<>>
    /\ idx = 3
    /\ origins[1] = origins[3]
    /\ origins[2] # origins[1]
    /\ Len(seeds) = 3
    /\ Cardinality(subgraph_nodes) > Cardinality(Reach(seeds[1]))

-----------------------------------------------------------------------------
(* C5. Unknown reporting: the returned UnknownOrigins is the subsequence   *)
(* of the successfully read lines that resolve neither directly nor, when  *)
(* permitted, via the protocol-swapped url; in input order, one entry per  *)
(* occurrence, each entry the input url and never the url tried instead.   *)
IsUnknownLine(line) == line.is_ok /\ ResolvesTo(line.v) = {}

ExpectedUnknown ==
    LET kept == SelectSeq(origins, IsUnknownLine)
    IN  [i \in 1..Len(kept) |-> kept[i].v]

UnknownReporting == Returned => unknown_origins = ExpectedUnknown

\* the same unknown url twice, its protocol-swapped form tried and not found,
\* with a line in between that is not reported
UnknownReportingWitness ==
    /\ Returned
    /\ allow_protocol_variations
    /\ Len(origins) = 3
    /\ Len(unknown_origins) = 2
    /\ unknown_origins[1] = unknown_origins[2]
    /\ origins[1] = Ok(unknown_origins[1])
    /\ origins[3] = Ok(unknown_origins[1])
    /\ HasProtocol(unknown_origins[1])

-----------------------------------------------------------------------------
(* C6. Protocol fallback resolution: with the flag on, when the direct     *)
(* lookup of u fails and u contains git:// or https://, the alternative    *)
(* url is looked up (git:// replaced by https:// if u contains git://,     *)
(* otherwise https:// replaced by git://); if it is in the graph the visit *)
(* is seeded from its node and u is not reported unknown. On the test's    *)
(* input git://example.com/repo2 resolves to node 1, the ResultSet is      *)
(* {0,..,6} and UnknownOrigins is [https://unknown.com/repo].              *)
LastUrl == origins[idx].v

\* the flag is on, the direct lookup of u fails and u names a protocol
FallbackApplies(u) == allow_protocol_variations /\ ~InGraph(u) /\ HasProtocol(u)

FallbackResolution ==
    /\ (idx > 0 /\ pc \in {"next_origin", "bfs"} /\ origins[idx].is_ok
            /\ FallbackApplies(LastUrl))
          => lookups = <<LastUrl, Swapped(LastUrl)>>
    /\ (pc = "bfs" /\ popped = <<>> /\ FallbackCase(LastUrl))
          => queue = <<NodeOf(Swapped(LastUrl))>>
    /\ \A i \in 1..idx :
          (origins[i].is_ok /\ FallbackCase(origins[i].v))
              => origins[i].v \notin Range(unknown_origins)
    /\ ( /\ Returned
         /\ successors = TestSuccessors
         /\ swhids = TestSwhids
         /\ origins = TestOrigins
         /\ allow_protocol_variations )
           => /\ seeds = <<0, 1>>
              /\ subgraph_nodes = 0..6
              /\ unknown_origins = <<<<HTTPS, "unknown.com/repo">>>>

\* a visit starts from the node of the alternative of a url that holds both
\* git:// and https://
FallbackResolutionWitness ==
    /\ pc = "bfs"
    /\ popped = <<>>
    /\ FallbackCase(LastUrl)
    /\ Contains(LastUrl, GIT)
    /\ Contains(LastUrl, HTTPS)
    /\ queue = <<NodeOf(Swapped(LastUrl))>>
    /\ unknown_origins = <<>>

-----------------------------------------------------------------------------
(* C7. The fallback is skipped when disabled or inapplicable: with the     *)
(* flag off, or for a url that contains neither git:// nor https://, no    *)
(* alternative is looked up and the origin resolves exactly when its own   *)
(* identifier is in the graph. On the test's input with the flag off,      *)
(* git://example.com/repo2 is reported unknown and the ResultSet is        *)
(* {0,2,3,4,5,6}.                                                          *)
FallbackSkipped(u) == ~allow_protocol_variations \/ ~HasProtocol(u)

FallbackSkippedWhenOff ==
    /\ (idx > 0 /\ pc \in {"next_origin", "bfs"} /\ origins[idx].is_ok
            /\ FallbackSkipped(LastUrl))
          => /\ lookups = <<LastUrl>>
             /\ IF InGraph(LastUrl)
                THEN seeds # <<>> /\ seeds[Len(seeds)] = NodeOf(LastUrl)
                ELSE /\ pc = "next_origin"
                     /\ unknown_origins # <<>>
                     /\ unknown_origins[Len(unknown_origins)] = LastUrl
             /\ (pc = "bfs" /\ popped = <<>>) => queue = <<NodeOf(LastUrl)>>
    /\ \A i \in 1..idx :
          (origins[i].is_ok /\ FallbackSkipped(origins[i].v))
              => (origins[i].v \in Range(unknown_origins)) = ~InGraph(origins[i].v)
    /\ ( /\ Returned
         /\ successors = TestSuccessors
         /\ swhids = TestSwhids
         /\ origins = TestOrigins
         /\ ~allow_protocol_variations )
           => /\ subgraph_nodes = {0, 2, 3, 4, 5, 6}
              /\ unknown_origins = <<<<GIT, "example.com/repo2">>,
                                     <<HTTPS, "unknown.com/repo">>>>

\* with the flag off, a url whose other protocol is in the graph is
\* reported unknown after one lookup
FallbackSkippedWhenOffWitness ==
    /\ pc = "next_origin"
    /\ idx > 0
    /\ origins[idx].is_ok
    /\ ~allow_protocol_variations
    /\ HasProtocol(LastUrl)
    /\ ~InGraph(LastUrl)
    /\ InGraph(Swapped(LastUrl))
    /\ lookups = <<LastUrl>>
    /\ unknown_origins = <<LastUrl>>

-----------------------------------------------------------------------------
(* C8. Protocol fallback symmetry: with the flag on, if u resolves to node *)
(* n and its protocol-swapped form u' resolves to n as well, directly or   *)
(* through the fallback, then the run on [u] and the run on [u'] return    *)
(* the same ResultSet and both return an empty UnknownOrigins.             *)
SymmetryCase ==
    /\ allow_protocol_variations
    /\ Len(origins) = 1
    /\ origins[1].is_ok
    /\ HasProtocol(origins[1].v)
    /\ ResolvesTo(origins[1].v) # {}
    /\ ResolvesTo(Swapped(origins[1].v)) = ResolvesTo(origins[1].v)

FallbackSymmetry ==
    (AtReturn /\ SymmetryCase) =>
        LET other == RunOn(<<Ok(Swapped(origins[1].v))>>)
        IN  /\ other.subgraph_nodes = subgraph_nodes
            /\ other.unknown_origins = <<>>
            /\ unknown_origins = <<>>

\* u is in the graph, u' is not and comes back to u; the seed has a successor
FallbackSymmetryWitness ==
    /\ AtReturn
    /\ SymmetryCase
    /\ InGraph(origins[1].v)
    /\ ~InGraph(Swapped(origins[1].v))
    /\ Cardinality(subgraph_nodes) = 2

-----------------------------------------------------------------------------
(* C9. Exit status: the process exits with 0 when the run succeeds, some   *)
(* origins unknown or not, and with a nonzero status when loading the      *)
(* graph fails, when opening the origins file fails, and when writing the  *)
(* result file fails.                                                      *)
ResultWriteFailed == "result" \in Range(io_log) /\ ~result_file.exists
ErrorsWriteFailed == "errors" \in Range(io_log) /\ ~errors_file.exists

ExitStatus ==
    pc = "exit" =>
        /\ io_log = <<>> => exit_code # 0
        /\ ResultWriteFailed => exit_code # 0
        /\ (io_log # <<>> /\ ~ResultWriteFailed /\ ~ErrorsWriteFailed) => exit_code = 0

-----------------------------------------------------------------------------
(* C10. Error file emission: at the end of the driver the write of         *)
(* origin_errors.txt has been attempted exactly when UnknownOrigins is     *)
(* nonempty, the file then holding UnknownOrigins if the write succeeded;  *)
(* with no unknown origin no write of it is attempted, and the attempt     *)
(* comes only after the attempt to write the result file.                  *)
ErrorFileEmission ==
    /\ io_log \in {<<>>, <<"result">>, <<"result", "errors">>}
    /\ "errors" \in Range(io_log) => unknown_origins # <<>>
    /\ (pc = "exit" /\ Returned) =>
          ("errors" \in Range(io_log)) = (unknown_origins # <<>>)
    /\ errors_file.exists => errors_file.items = unknown_origins
    /\ (pc = "exit" /\ exit_code = 0 /\ unknown_origins # <<>>) => errors_file.exists

\* the error file is written although the write of the result file failed
ErrorFileEmissionWitness ==
    /\ pc = "exit"
    /\ io_log = <<"result", "errors">>
    /\ ~result_file.exists
    /\ errors_file.exists
    /\ Len(errors_file.items) = 2

-----------------------------------------------------------------------------
(* C11.  Termination.  Every visit reaches an empty queue and the run      *)
(* returns (subgraph_nodes, unknown_origins), on every graph (cycles,      *)
(* self-loops and a cycle back to the seed included) and every origin      *)
(* list: a step is possible until the process has ended, and every step    *)
(* lowers a rank that is never negative, so a run that keeps taking steps  *)
(* leaves each while loop through the empty queue and each for loop        *)
(* through the return.                                                     *)

\* what a visit can still do: twice the pushes left (the seed, then one per
\* node of the graph) and the pops owed for the nodes in the queue
VisitRank ==
    IF pc = "bfs"
    THEN 2 * (num_nodes(swhids) + 1 - Len(pushed)) + Len(queue) + 1
    ELSE 0

\* the lines left, each worth more than a whole visit
LineRank == (Len(origins) - idx) * (2 * num_nodes(swhids) + 4)

\* the stages of main that are left
StageRank ==
    CASE pc = "open_origins" -> 5
      [] pc = "load_graph" -> 4
      [] pc \in {"next_origin", "bfs"} -> 3
      [] pc = "write_result" -> 2
      [] pc = "write_errors" -> 1
      [] pc = "exit" -> 0

Rank == StageRank + LineRank + VisitRank

Termination ==
    /\ [][Rank' < Rank]_vars
    /\ [](Rank >= 0 /\ VisitRank >= 0)
    /\ [](pc = "bfs" => popped \o queue = pushed)
    /\ [](pc # "exit" => ENABLED Next)

\* a visit ended after the seed was pushed and popped twice
TerminationWitness ==
    /\ pc = "bfs"
    /\ queue = <<>>
    /\ Len(pushed) = num_nodes(swhids) + 1
    /\ Len(popped) = Len(pushed)

-----------------------------------------------------------------------------
(* C12.  A line the reader yields as an error is skipped: the step that    *)
(* consumes it changes neither subgraph_nodes nor unknown_origins, looks   *)
(* nothing up and starts no visit, the loop goes on with the next line,    *)
(* and what is returned is what the same file without that line returns.   *)

\* the line the loop is about to consume is a read error
AtReadError == pc = "next_origin" /\ HasNext /\ ~NextLine.is_ok

ReadErrorsSkipped ==
    /\ [][AtReadError =>
            /\ subgraph_nodes' = subgraph_nodes
            /\ unknown_origins' = unknown_origins
            /\ seeds' = seeds
            /\ lookups' = <<>>
            /\ queue' = queue
            /\ pc' = "next_origin"
            /\ idx' = idx + 1]_vars
    /\ [](pc \in {"next_origin", "bfs"} =>
            Len(seeds) + Len(unknown_origins)
                = Cardinality({i \in 1..idx : origins[i].is_ok}))
    /\ [](AtReturn =>
            \A j \in 1..Len(origins) :
                ~origins[j].is_ok =>
                    RunOn(Without(origins, j))
                        = [subgraph_nodes |-> subgraph_nodes,
                           unknown_origins |-> unknown_origins])

\* a read error between a line that resolved and a line that did not
ReadErrorsSkippedWitness ==
    /\ AtReturn
    /\ Len(origins) = 3
    /\ origins[1].is_ok /\ ~origins[2].is_ok /\ origins[3].is_ok
    /\ Len(seeds) = 1
    /\ unknown_origins = <<origins[3].v>>

-----------------------------------------------------------------------------
(* C13.  Within one visit no node is pushed onto the queue more than once  *)
(* between the push of the seed and the queue becoming empty.              *)

NoNodePushedTwice ==
    pc = "bfs" =>
        \A i, j \in 1..Len(pushed) : pushed[i] = pushed[j] => i = j

-----------------------------------------------------------------------------
(* C14.  Queue bound: in every state of every visit the queue holds at     *)
(* most N nodes, N the node count of the graph.                            *)

QueueBound == Len(queue) <= num_nodes(swhids)

\* the queue holds N nodes, the seed pushed a second time among them
QueueBoundWitness ==
    /\ pc = "bfs"
    /\ Len(queue) = num_nodes(swhids)
    /\ seeds[Len(seeds)] \in Range(queue)
    /\ popped # <<>>

-----------------------------------------------------------------------------
(* C15.  Pruning safety.  Between visits subgraph_nodes is closed under    *)
(* successors; during a visit every successor of a member of               *)
(* subgraph_nodes is a member too or is in the queue.  A popped node that  *)
(* is already a member can therefore be dropped without losing a node.     *)

\* the successors of the members of S that this visit still owes
Owed(S) == {m \in UNION {Range(successors[n]) : n \in S} : m \notin S}

PruningSafety ==
    /\ pc # "bfs" => Owed(subgraph_nodes) = {}
    /\ pc = "bfs" => Owed(subgraph_nodes) \subseteq Range(queue)

\* a later visit, after a pruned pop, with a successor still owed in the queue
PruningSafetyWitness ==
    /\ pc = "bfs"
    /\ Len(seeds) >= 2
    /\ Len(popped) > visited_nodes
    /\ Owed(subgraph_nodes) # {}

-----------------------------------------------------------------------------
(* C16.  A pruned pop changes nothing but the queue: when the node at the  *)
(* front of the queue is already in subgraph_nodes, the iteration removes  *)
(* it from the queue and leaves subgraph_nodes, visited, the rest of the   *)
(* queue, unknown_origins and visited_nodes as they were.                  *)

\* the iteration about to run pops a node that is already in the result
AtPrunedPop == pc = "bfs" /\ queue # <<>> /\ Head(queue) \in subgraph_nodes

PrunedPopIsNoOp ==
    [][AtPrunedPop =>
          /\ queue' = Tail(queue)
          /\ subgraph_nodes' = subgraph_nodes
          /\ visited' = visited
          /\ unknown_origins' = unknown_origins
          /\ visited_nodes' = visited_nodes
          /\ pushed' = pushed
          /\ expanded' = expanded]_vars

\* the node just popped was expanded by an earlier visit; marked nodes wait
PrunedPopIsNoOpWitness ==
    /\ pc = "bfs"
    /\ popped # <<>>
    /\ popped[Len(popped)] \in Range(SubSeq(expanded, 1, Len(expanded) - visited_nodes))
    /\ queue # <<>>
    /\ visited # {}
    /\ unknown_origins # <<>>

-----------------------------------------------------------------------------
(* The driver of section 4.4 that keeps one VisitedSet for the whole run:  *)
(* the set is created at driver start and every visit goes on marking it.  *)

process_line_shared(g_succ, g_swhids, allow, acc, origin_result) ==
    IF ~origin_result.is_ok THEN acc
    ELSE LET origin == origin_result.v
             r == resolve(g_swhids, origin, allow).node_id_lookup
         IN  IF ~r.is_ok
             THEN [acc EXCEPT !.unknown_origins = Append(@, origin)]
             ELSE LET st == bfs(g_succ, [subgraph_nodes |-> acc.subgraph_nodes,
                                         visited |-> acc.visited,
                                         queue |-> <<r.v>>,
                                         visited_nodes |-> 0])
                  IN  [acc EXCEPT !.subgraph_nodes = st.subgraph_nodes,
                                  !.visited = st.visited]

RECURSIVE process_origins_shared_from(_, _, _, _, _, _)
process_origins_shared_from(g_succ, g_swhids, origs, allow, i, acc) ==
    IF i > Len(origs) THEN acc
    ELSE process_origins_shared_from(g_succ, g_swhids, origs, allow, i + 1,
             process_line_shared(g_succ, g_swhids, allow, acc, origs[i]))

process_origins_shared(g_succ, g_swhids, origs, allow) ==
    LET acc == process_origins_shared_from(g_succ, g_swhids, origs, allow, 1,
                   [subgraph_nodes |-> {}, unknown_origins |-> <<>>,
                    visited |-> {}])
    IN  [subgraph_nodes |-> acc.subgraph_nodes,
         unknown_origins |-> acc.unknown_origins]

(* C17.  The lifetime of the VisitedSet does not affect the result: for    *)
(* every graph and origin list the driver with one shared VisitedSet       *)
(* returns the subgraph_nodes and the unknown_origins that the driver with *)
(* a fresh VisitedSet per origin returns.                                  *)

VisitedLifetimeIrrelevant ==
    AtReturn =>
        process_origins_shared(successors, swhids, origins,
                               allow_protocol_variations)
            = [subgraph_nodes |-> subgraph_nodes,
               unknown_origins |-> unknown_origins]

\* three visits, the later ones pruned, that cover the layered graph
VisitedLifetimeIrrelevantWitness ==
    /\ AtReturn
    /\ Len(seeds) = 3
    /\ Cardinality(Range(seeds)) = 3
    /\ Cardinality(subgraph_nodes) = 8
    /\ \E i \in 1..Len(visit_log) : visit_log[i] < Cardinality(Reach(seeds[i]))

-----------------------------------------------------------------------------
(* C18.  BFS order.                                                        *)

\* the length of the shortest path from the nodes of frontier to n that
\* leaves no node of cut; -1 when there is none
RECURSIVE DistFrom(_, _, _, _)
DistFrom(frontier, seen, n, cut) ==
    IF n \in frontier THEN 0
    ELSE LET next == UNION {Range(successors[m]) : m \in frontier \ cut} \ seen
         IN  IF next = {} THEN -1
             ELSE LET d == DistFrom(next, seen \cup next, n, cut)
                  IN  IF d < 0 THEN -1 ELSE d + 1

Seed == seeds[Len(seeds)]

\* the forward distance of n from the seed of the visit in progress
Dist(n) == DistFrom({Seed}, {Seed}, n, {})

\* the nodes that were in subgraph_nodes when the visit in progress began
Before == Range(SubSeq(expanded, 1, Len(expanded) - visited_nodes))

\* the distance along paths through nodes this visit expands
PrunedDist(n) == DistFrom({Seed}, {Seed}, n, Before)

\* pop i is the first pop of its node
FirstPop(i) == \A k \in 1..(i - 1) : popped[k] # popped[i]

(* C18, as stated: within one visit the nodes are popped in non-decreasing *)
(* order of their forward distance from the seed.                          *)
PoppedByDistance ==
    pc = "bfs" =>
        \A i, j \in 1..Len(popped) : i <= j => Dist(popped[i]) <= Dist(popped[j])

(* C18, amended: within one visit the nodes leave the queue in the order   *)
(* they were pushed, and the first pops of the nodes come in               *)
(* non-decreasing order of their distance from the seed along paths        *)
(* through nodes that were not in subgraph_nodes when the visit began; for *)
(* the first origin that is the forward distance in the graph.             *)
PoppedInPushOrder ==
    pc = "bfs" =>
        /\ popped \o queue = pushed
        /\ \A i, j \in 1..Len(popped) :
              (i <= j /\ FirstPop(i) /\ FirstPop(j)) =>
                  /\ 0 <= PrunedDist(popped[i])
                  /\ PrunedDist(popped[i]) <= PrunedDist(popped[j])
        /\ Len(seeds) = 1 =>
              \A i \in 1..Len(popped) : PrunedDist(popped[i]) = Dist(popped[i])

\* a pruned visit that popped a node, not the seed, after a node farther
\* from the seed in the graph
PoppedInPushOrderWitness ==
    /\ pc = "bfs"
    /\ queue = <<>>
    /\ Len(seeds) >= 2
    /\ \E i, j \in 1..Len(popped) :
          /\ i < j
          /\ popped[j] # Seed
          /\ Dist(popped[i]) > Dist(popped[j])
          /\ PrunedDist(popped[i]) < PrunedDist(popped[j])

-----------------------------------------------------------------------------
(* C19.  Over the whole run the successors of a node are enumerated at     *)
(* most once, on the pop that inserts the node into subgraph_nodes; hence  *)
(* the visited_nodes counters of the visits add up to the size of          *)
(* subgraph_nodes.                                                         *)

RECURSIVE SumOf(_)
SumOf(counts) == IF counts = <<>> THEN 0 ELSE Head(counts) + SumOf(Tail(counts))

ExpandedAtMostOnce ==
    /\ \A i, j \in 1..Len(expanded) : expanded[i] = expanded[j] => i = j
    /\ Range(expanded) = subgraph_nodes
    /\ SumOf(visit_log) + (IF pc = "bfs" THEN visited_nodes ELSE 0)
           = Cardinality(subgraph_nodes)
    /\ Returned =>
          /\ Len(visit_log) = Len(seeds)
          /\ SumOf(visit_log) = Cardinality(subgraph_nodes)

\* three visits: one that found nothing new and one that was pruned part way
ExpandedAtMostOnceWitness ==
    /\ AtReturn
    /\ Len(visit_log) = 3
    /\ 0 \in Range(visit_log)
    /\ \E i \in 1..3 :
          /\ 0 < visit_log[i]
          /\ visit_log[i] < Cardinality(Reach(seeds[i]))

-----------------------------------------------------------------------------
(* C20.  The direct lookup takes precedence over the fallback: when the    *)
(* url u of a line is itself in the graph, only u is looked up and the     *)
(* visit is seeded from the node of u, even if the flag is on and the      *)
(* protocol-swapped form of u is another node of the graph; that other     *)
(* node is in subgraph_nodes only if it is forward-reachable from a node   *)
(* some line resolved to.                                                  *)

\* the last line consumed was read and its url is in the graph
DirectCase ==
    idx > 0 /\ pc \in {"next_origin", "bfs"} /\ origins[idx].is_ok /\ InGraph(LastUrl)

\* the swapped form of u is a node of the graph other than the node of u
SwappedIsOtherNode(u) ==
    /\ InGraph(u)
    /\ HasProtocol(u)
    /\ InGraph(Swapped(u))
    /\ NodeOf(Swapped(u)) # NodeOf(u)

DirectLookupPrecedence ==
    /\ DirectCase =>
          /\ lookups = <<LastUrl>>
          /\ seeds # <<>>
          /\ seeds[Len(seeds)] = NodeOf(LastUrl)
          /\ pc = "bfs" => pushed[1] = NodeOf(LastUrl)
    /\ \A i \in 1..idx :
          (origins[i].is_ok /\ SwappedIsOtherNode(origins[i].v)
                /\ NodeOf(Swapped(origins[i].v)) \in subgraph_nodes)
             => NodeOf(Swapped(origins[i].v)) \in Closure(ResolvedUpTo(idx))

\* the flag is on, both forms are nodes, and the run returned without the
\* node of the swapped form
DirectLookupPrecedenceWitness ==
    /\ Returned
    /\ allow_protocol_variations
    /\ Len(origins) = 1
    /\ origins[1].is_ok
    /\ SwappedIsOtherNode(origins[1].v)
    /\ lookups = <<origins[1].v>>
    /\ subgraph_nodes = {NodeOf(origins[1].v)}

-----------------------------------------------------------------------------
(* C21.  The two outcomes of resolution touch disjoint state.  Processing  *)
(* a line whose origin is unknown appends exactly one entry to             *)
(* unknown_origins and leaves subgraph_nodes unchanged; processing a line  *)
(* whose origin resolves, from the lookup to the end of its visit, leaves  *)
(* unknown_origins unchanged; and no step of the run removes a node from   *)
(* subgraph_nodes.                                                         *)

\* the loop is about to consume a line that was read
AtOrigin == pc = "next_origin" /\ HasNext /\ NextLine.is_ok

DisjointOutcomes ==
    /\ [][(AtOrigin /\ ResolvesTo(NextLine.v) = {}) =>
             /\ Len(unknown_origins') = Len(unknown_origins) + 1
             /\ SubSeq(unknown_origins', 1, Len(unknown_origins)) = unknown_origins
             /\ subgraph_nodes' = subgraph_nodes
             /\ seeds' = seeds
             /\ pc' = "next_origin"]_vars
    /\ [][((AtOrigin /\ ResolvesTo(NextLine.v) # {}) \/ pc = "bfs") =>
             unknown_origins' = unknown_origins]_vars
    /\ [][subgraph_nodes \subseteq subgraph_nodes']_vars

\* an unknown line between a line that resolves directly and a line found
\* through the fallback, whose visit added nodes after a pruned pop
DisjointOutcomesWitness ==
    /\ pc = "bfs"
    /\ queue = <<>>
    /\ idx = 3
    /\ Len(seeds) = 2
    /\ unknown_origins = <<origins[2].v>>
    /\ FallbackCase(origins[3].v)
    /\ visited_nodes > 0
    /\ Len(popped) > visited_nodes

====
